---------------------------- MODULE Spec2Model ----------------------------
(***************************************************************************)
(* A model of the raycasting engine of src/main.c: the tile registry       *)
(* (load_tiles, get_tile_by_id), the map (load_map, get_tile, is_solid),   *)
(* the camera (rotate_camera, move_camera) and the renderer                *)
(* (render_raycast, vertical_line).                                        *)
(*                                                                         *)
(* Floats are fixed-point integers counted in units of 1/Scale of a world  *)
(* unit (a map cell is Scale units wide).  The inputs are drawn from sets  *)
(* on which the arithmetic of the code is exact at this resolution, so the *)
(* model follows the real-number meaning of the float code and leaves out  *)
(* float rounding.                                                         *)
(***************************************************************************)
EXTENDS Integers, Sequences, FiniteSets, TLC

VARIABLES
    tile_registry,  \* main.c:67  the owned tiles; a Tile* is an index into it, 0 is NULL
    tile_count,     \* main.c:68
    id_lut,         \* main.c:69  id -> Tile*
    map,            \* main.c:588 struct Map
    camera,         \* main.c:594 Camera
    pixels,         \* main.c:570 the frame buffer, on the sampled rows and columns
    rays,           \* locals of the wall pass at the end of each sampled column
    rows,           \* locals of the floor pass in each sampled row
    pc,             \* where main is
    manifest_in,    \* the manifest load_tiles read
    map_in,         \* the map file load_map read
    last,           \* the last camera call: its arguments, the camera before, the micro-steps
    ncalls          \* how many camera calls were made

vars == <<tile_registry, tile_count, id_lut, map, camera, pixels, rays, rows,
          pc, manifest_in, map_in, last, ncalls>>

---------------------------------------------------------------------------
(* Bounds of the model *)

\* Scale = 100 * 5^SubDiv: directions k/5^SubDiv are exact
SubDiv == 1

\* camera calls per behaviour
MaxCalls == 2

\* the integer coordinates queried run over -MaxCoord..MaxCoord
MaxCoord == 10

Scale == 100 * (5 ^ SubDiv)

---------------------------------------------------------------------------
(* Program constants *)

SCREEN_WIDTH == 1200
SCREEN_HEIGHT == 900
MAP_MAX_STEPS == 1024
TILE_BASE_SIZE == 128
MAX_TILE_ID == 255
CEILING_TILE_ID == 65
SKY_COLOR == "SKY_COLOR"
GROUND_COLOR == "GROUND_COLOR"

CAMERA_RADIUS == Scale \div 10
FOV_FACTOR == (66 * Scale) \div 100
MAX_STEP == CAMERA_RADIUS \div 2
MOVE_SPEED_SEC == 5
max_iter == 64

NULL == 0

---------------------------------------------------------------------------
(* Helpers of main.c *)

sgnf(x) == IF x > 0 THEN 1 ELSE IF x < 0 THEN -1 ELSE 0
maxi(a, b) == IF a > b THEN a ELSE b
mini(a, b) == IF a < b THEN a ELSE b
fabsf(x) == IF x < 0 THEN -x ELSE x

\* floorf of a fixed-point value, as a cell index
floorf(v) == v \div Scale

\* (int)v of a fixed-point value: truncation towards zero
truncf(v) == IF v >= 0 THEN v \div Scale ELSE -((-v) \div Scale)

RECURSIVE isqrt_between(_, _, _)
isqrt_between(n, lo, hi) ==
    IF lo >= hi THEN lo
    ELSE LET mid == (lo + hi + 1) \div 2
         IN  IF mid * mid <= n THEN isqrt_between(n, mid, hi)
             ELSE isqrt_between(n, lo, mid - 1)

\* hypotf on fixed-point arguments (|x|, |y| <= 4 * Scale)
hypotf(x, y) == isqrt_between(x * x + y * y, 0, 8 * Scale)

---------------------------------------------------------------------------
(* Tile registry *)

TileTypeOf(typestr) ==
    IF typestr = "floor" THEN "TILE_TYPE_FLOOR"
    ELSE IF typestr = "wall" THEN "TILE_TYPE_WALL"
    ELSE IF typestr = "door" THEN "TILE_TYPE_DOOR"
    ELSE "TILE_TYPE_DECOR"

EmptyLut == [id \in 0..MAX_TILE_ID |-> NULL]

\* registers a tile under every id, 0xFF included
RegisterAll(lut, id, t) ==
    IF id <= MAX_TILE_ID THEN [lut EXCEPT ![id] = t] ELSE lut

\* main.c:139-140
Register(lut, id, t) ==
    IF id < MAX_TILE_ID THEN [lut EXCEPT ![id] = t] ELSE lut

\* the second loop of load_tiles, main.c:96-141; ok = FALSE is exit(EXIT_FAILURE)
RECURSIVE load_entries(_, _, _, _)
load_entries(entries, i, reg, lut) ==
    IF i > Len(entries) THEN [ok |-> TRUE, reg |-> reg, lut |-> lut]
    ELSE LET e == entries[i] IN
         IF ~e.img_ok THEN [ok |-> FALSE, reg |-> reg, lut |-> lut]
         ELSE LET t == [id |-> e.id, width |-> e.w, height |-> e.h,
                        type |-> TileTypeOf(e.typestr)]
                  reg2 == Append(reg, t)
              IN  load_entries(entries, i + 1, reg2, Register(lut, e.id, Len(reg2)))

\* main.c:71-151
load_tiles(m, reg, count, lut) ==
    IF ~m.readable
    THEN [ok |-> TRUE, reg |-> reg, count |-> count, lut |-> lut]
    ELSE LET r == load_entries(m.entries, 1, <<>>, lut)
         IN  [ok |-> r.ok, reg |-> r.reg, count |-> count + Len(m.entries),
              lut |-> r.lut]

\* main.c:153-155
get_tile_by_id(lut, id) == IF id <= MAX_TILE_ID THEN lut[id] ELSE NULL

---------------------------------------------------------------------------
(* Map *)

NullTiles == <<>>

ZeroMap == [width |-> 0, height |-> 0, tiles |-> NullTiles]

\* fscanf of one number: the token's value, or a failure on junk / end of file
IsNum(toks, i) == i <= Len(toks) /\ toks[i].kind = "num"

\* the cell loop of load_map, main.c:196-209: the n cells read in row-major
\* order, or the failure at the first token that is no hex number
read_cells(lut, toks, n) ==
    IF \E k \in 1..n : ~IsNum(toks, 2 + k)
    THEN [ok |-> FALSE, tiles |-> NullTiles]
    ELSE [ok |-> TRUE,
          tiles |-> [k \in 1..n |-> get_tile_by_id(lut, toks[2 + k].val)]]

\* the header check with the dimensions reset on failure
load_header_reset(f) ==
    IF IsNum(f.toks, 1) /\ IsNum(f.toks, 2)
       /\ f.toks[1].val > 0 /\ f.toks[2].val > 0
    THEN [ok |-> TRUE, width |-> f.toks[1].val, height |-> f.toks[2].val]
    ELSE [ok |-> FALSE, width |-> 0, height |-> 0]

\* main.c:182-187: fscanf stores each dimension it converts, and the failure
\* return leaves them as they are
load_header(f) ==
    LET w == IF IsNum(f.toks, 1) THEN f.toks[1].val ELSE 0
        h == IF IsNum(f.toks, 1) /\ IsNum(f.toks, 2) THEN f.toks[2].val ELSE 0
        n == IF ~IsNum(f.toks, 1) THEN 0 ELSE IF ~IsNum(f.toks, 2) THEN 1 ELSE 2
    IN  [ok |-> ~(n # 2 \/ w <= 0 \/ h <= 0), width |-> w, height |-> h]

\* main.c:173-219
load_map(lut, f) ==
    IF ~f.exists THEN ZeroMap
    ELSE LET hd == load_header(f) IN
         IF ~hd.ok THEN [width |-> hd.width, height |-> hd.height, tiles |-> NullTiles]
         ELSE LET r == read_cells(lut, f.toks, hd.width * hd.height)
              IN  IF ~r.ok THEN ZeroMap
                  ELSE [width |-> hd.width, height |-> hd.height, tiles |-> r.tiles]

\* (unsigned)x >= n for 0 <= n <= INT_MAX: a negative x converts to 2^32 + x > INT_MAX
UnsignedGE(x, n) == IF x < 0 THEN TRUE ELSE x >= n

\* the bounds test without the unsigned conversions
in_bounds_signed(m, x, y) == ~(x >= m.width \/ y >= m.height)

\* main.c:222: the cell array is read only when this holds
in_bounds(m, x, y) == ~(UnsignedGE(x, m.width) \/ UnsignedGE(y, m.height))

\* main.c:221-225
get_tile(m, x, y) ==
    IF ~in_bounds(m, x, y) THEN NULL
    ELSE m.tiles[y * m.width + x + 1]

\* main.c:227-230
is_solid(m, x, y) ==
    LET t == get_tile(m, x, y)
    IN  t = NULL \/ tile_registry[t].type = "TILE_TYPE_WALL"

---------------------------------------------------------------------------
(* Camera *)

\* a * b and a / b on fixed-point values, rounded to nearest
fmul(a, b) == (2 * a * b + Scale) \div (2 * Scale)
fdiv(a, b) == (2 * a * Scale + b) \div (2 * b)

\* the rotation with new_dir_x fed into new_dir_y
rotate_camera_sequential(cam, cos_rad, sin_rad) ==
    LET new_dir_x == fmul(cam.dir_x, cos_rad) - fmul(cam.dir_y, sin_rad)
        new_dir_y == fmul(new_dir_x, sin_rad) + fmul(cam.dir_y, cos_rad)
        new_plane_x == fmul(cam.plane_x, cos_rad) - fmul(cam.plane_y, sin_rad)
        new_plane_y == fmul(new_plane_x, sin_rad) + fmul(cam.plane_y, cos_rad)
    IN  [cam EXCEPT !.dir_x = new_dir_x, !.dir_y = new_dir_y,
                    !.plane_x = new_plane_x, !.plane_y = new_plane_y]

\* main.c:238-251, on cos_rad = cosf(rad), sin_rad = sinf(rad)
rotate_camera(cam, cos_rad, sin_rad) ==
    LET new_dir_x == fmul(cam.dir_x, cos_rad) - fmul(cam.dir_y, sin_rad)
        new_dir_y == fmul(cam.dir_x, sin_rad) + fmul(cam.dir_y, cos_rad)
        new_plane_x == fmul(cam.plane_x, cos_rad) - fmul(cam.plane_y, sin_rad)
        new_plane_y == fmul(cam.plane_x, sin_rad) + fmul(cam.plane_y, cos_rad)
    IN  [cam EXCEPT !.dir_x = new_dir_x, !.dir_y = new_dir_y,
                    !.plane_x = new_plane_x, !.plane_y = new_plane_y]

\* remaining > 1e-6f, on a whole number of units
above_eps(remaining) == remaining > Scale \div 1000000

\* one step for the whole distance
step_whole(remaining) == remaining

\* main.c:273
step_of(remaining) == IF remaining > MAX_STEP THEN MAX_STEP ELSE remaining

\* the distance left never decreases
next_remaining_stuck(remaining, step) == remaining

\* main.c:274
next_remaining(remaining, step) == remaining - step

\* main.c:272: while (remaining > 1e-6f && max_iter--)
loop_continues(remaining, iter) == above_eps(remaining) /\ iter # 0

\* the collision probe without the radius
probe_no_radius(v, d) == floorf(v)

\* the collision probe behind the camera
probe_behind(v, d) == floorf(v - sgnf(d) * CAMERA_RADIUS)

\* main.c:277, 283: the cell probed ahead of the camera
probe(v, d) == floorf(v + sgnf(d) * CAMERA_RADIUS)

\* main.c:272-285: one turn of the loop, on the loop's variables; trace collects
\* the position after each micro-step
micro_step(m, dx, dy, s) ==
    IF ~loop_continues(s.remaining, s.iter) THEN s
    ELSE LET step == step_of(s.remaining)
             nx == s.px + fmul(dx, step)
             px2 == IF ~is_solid(m, probe(nx, dx), floorf(s.py)) THEN nx ELSE s.px
             ny == s.py + fmul(dy, step)
             py2 == IF ~is_solid(m, floorf(px2), probe(ny, dy)) THEN ny ELSE s.py
         IN  [px |-> px2, py |-> py2,
              remaining |-> next_remaining(s.remaining, step),
              iter |-> s.iter - 1,
              trace |-> Append(s.trace, [x |-> px2, y |-> py2])]

\* n turns of the loop, or fewer when it ends before
RECURSIVE micro_steps(_, _, _, _, _)
micro_steps(m, dx, dy, s, n) ==
    IF n = 0 THEN s
    ELSE IF n = 1 THEN micro_step(m, dx, dy, s)
    ELSE LET h == micro_steps(m, dx, dy, s, n \div 2)
         IN  IF ~loop_continues(h.remaining, h.iter) THEN h
             ELSE micro_steps(m, dx, dy, h, n - (n \div 2))

\* main.c:255-291: the micro-steps of one call (none when it returns early)
move_trace(cam, m, dir_x, dir_y, speed) ==
    LET remaining == fabsf(speed)
        fx == IF speed < 0 THEN -dir_x ELSE dir_x
        fy == IF speed < 0 THEN -dir_y ELSE dir_y
        len == hypotf(fx, fy)
    IN  IF len = 0 THEN <<>>
        ELSE micro_steps(m, fdiv(fx, len), fdiv(fy, len),
                         [px |-> cam.pos_x, py |-> cam.pos_y,
                          remaining |-> remaining, iter |-> max_iter,
                          trace |-> <<>>],
                         max_iter).trace

move_camera(cam, trace) ==
    IF trace = <<>> THEN cam
    ELSE [cam EXCEPT !.pos_x = trace[Len(trace)].x, !.pos_y = trace[Len(trace)].y]

\* main.c:287-290: the condition of the "inside wall" diagnostic
inside_wall(cam, m) == is_solid(m, truncf(cam.pos_x), truncf(cam.pos_y))

\* main.c:594-607
InitCamera == [pos_x |-> 2 * Scale, pos_y |-> 2 * Scale,
               dir_x |-> -Scale, dir_y |-> 0,
               plane_x |-> 0, plane_y |-> FOV_FACTOR]

NoCall == [fn |-> "none", before |-> InitCamera, dir_x |-> 0, dir_y |-> 0,
           speed |-> 0, trace |-> <<>>]

---------------------------------------------------------------------------
(* Renderer *)

INT_MAX == 2147483647
INT_MIN == -INT_MAX - 1

\* a / b rounded to nearest, b > 0
RoundDiv(a, b) == (2 * a + b) \div (2 * b)

\* a / b in C, on ints: truncation towards zero, b > 0
cdiv(a, b) == IF a >= 0 THEN a \div b ELSE -((-a) \div b)

RECURSIVE GCD(_, _)
GCD(a, b) == IF b = 0 THEN a ELSE GCD(b, a % b)

\* a + b on 32-bit ints: the sum leaves the int range
add_overflows(a, b) ==
    \/ (a > 0 /\ b > 0 /\ a > INT_MAX - b)
    \/ (a < 0 /\ b < 0 /\ a < INT_MIN - b)

\* a + b on 32-bit ints, reduced modulo 2^32 into the int range
add32(a, b) ==
    IF a > 0 /\ b > 0 /\ a > INT_MAX - b
    THEN ((a - INT_MAX) - 1) + ((b - INT_MAX) - 1)
    ELSE IF a < 0 /\ b < 0 /\ a < INT_MIN - b
    THEN ((a + INT_MAX) + 1) + ((b + INT_MAX) + 1)
    ELSE a + b

\* a * b on 32-bit ints, b > 0: the product leaves the int range
mul_overflows(a, b) ==
    IF a >= 0 THEN a > INT_MAX \div b
    ELSE (-a) > (INT_MAX \div b) + (IF INT_MAX % b = b - 1 THEN 1 ELSE 0)

\* a * b on 32-bit ints, b >= 0, reduced modulo 2^32 into the int range
RECURSIVE mul32(_, _)
mul32(a, b) ==
    IF b = 0 THEN 0
    ELSE IF ~mul_overflows(a, b) THEN a * b
    ELSE LET h == mul32(a, b \div 2)
             dbl == add32(h, h)
         IN  IF b % 2 = 1 THEN add32(dbl, a) ELSE dbl

\* a & b on ints, b >= 0: a negative a has the low 31 bits of a + 2^31
RECURSIVE bitand(_, _)
bitand(a, b) ==
    IF a < 0 THEN bitand((a + INT_MAX) + 1, b)
    ELSE IF a = 0 \/ b = 0 THEN 0
    ELSE (a % 2) * (b % 2) + 2 * bitand(a \div 2, b \div 2)

\* the sampled columns, and the sampled rows of the lower half with their mirrors
Cols == {0, SCREEN_WIDTH \div 2, SCREEN_WIDTH - 1}

\* main.c:373: the rows the floor pass goes through
floor_rows == (SCREEN_HEIGHT \div 2)..(SCREEN_HEIGHT - 1)

LowRows == {y \in floor_rows :
              y - SCREEN_HEIGHT \div 2 \in {0, 1, 2, SCREEN_HEIGHT \div 4,
                                            SCREEN_HEIGHT \div 2 - 1}}
Rows == LowRows \cup {SCREEN_HEIGHT - 1 - y : y \in LowRows}

\* main.c:299-301
clear_pixels == [x \in Cols |-> [y \in Rows |-> "0"]]

\* (int)floorf(v) of a float that is no finite number: undefined in C. x86 yields
\* INT_MIN whatever v is, ARM saturates and turns NaN into 0
float_to_int(build, kind) ==
    IF build = "x86" THEN INT_MIN
    ELSE IF kind = "+inf" THEN INT_MAX
    ELSE IF kind = "-inf" THEN INT_MIN
    ELSE 0

\* v * inf and the sum of two such products, in IEEE arithmetic
times_inf(v) == IF v > 0 THEN "+inf" ELSE IF v < 0 THEN "-inf" ELSE "nan"
plus_inf(a, b) == IF a = b THEN a ELSE "nan"

\* main.c:374-376: p and row_dist of row y; camera_z / p is a division by zero
\* when p = 0, which IEEE arithmetic answers with +inf
floor_row(y) ==
    LET p == y - SCREEN_HEIGHT \div 2
        camera_z == SCREEN_HEIGHT \div 2
    IN  [y |-> y, p |-> p, div_by_zero |-> (p = 0),
         row_dist |-> IF p = 0 THEN 0 ELSE RoundDiv(camera_z * Scale, p)]

\* main.c:378-394: the floor coordinate of one axis at column x of row y, after
\* x additions of the step:
\*   pos + ray_dir0 * row_dist + x * row_dist * (ray_dir1 - ray_dir0) / SCREEN_WIDTH
floor_coord(pos, dir, plane, x, y) ==
    LET p == y - SCREEN_HEIGHT \div 2
        camera_z == SCREEN_HEIGHT \div 2
        g == GCD(camera_z, SCREEN_WIDTH)
        ray_dir0 == dir - plane
        ray_dir1 == dir + plane
    IN  pos + RoundDiv((camera_z \div g)
                         * (ray_dir0 * SCREEN_WIDTH + x * (ray_dir1 - ray_dir0)),
                       p * (SCREEN_WIDTH \div g))

\* the same at the row where row_dist is +inf
floor_coord_inf(dir, plane, x) ==
    LET start == times_inf(dir - plane)
        step == times_inf(plane)
    IN  IF x = 0 THEN start ELSE plus_inf(start, step)

\* main.c:390-391
floor_cell(cam, x, y, build) ==
    IF floor_row(y).div_by_zero
    THEN [map_x |-> float_to_int(build, floor_coord_inf(cam.dir_x, cam.plane_x, x)),
          map_y |-> float_to_int(build, floor_coord_inf(cam.dir_y, cam.plane_y, x))]
    ELSE [map_x |-> floorf(floor_coord(cam.pos_x, cam.dir_x, cam.plane_x, x, y)),
          map_y |-> floorf(floor_coord(cam.pos_y, cam.dir_y, cam.plane_y, x, y))]

\* main.c:396-399: the pixel (x, y) of the lower half gets a floor texel
floor_painted(cam, m, x, y, build) ==
    LET c == floor_cell(cam, x, y, build)
        floor_tile == get_tile(m, c.map_x, c.map_y)
    IN  floor_tile # NULL /\ tile_registry[floor_tile].type = "TILE_TYPE_FLOOR"

\* main.c:406, 415, 503: the read of tile t's pixels at (tex_x, tex_y) stays
\* inside its width * height buffer
texel_in_buffer(tex_x, tex_y, t) ==
    /\ 0 <= tex_y * t.width + tex_x
    /\ tex_y * t.width + tex_x < t.width * t.height

\* main.c:401-404: a texel coordinate of the floor pixel (x, y) on one axis, from
\* the floor coordinate after the step of column x was added to it
floor_tex(pos, dir, plane, map_c, size, x, y, build) ==
    IF floor_row(y).div_by_zero
    THEN bitand(float_to_int(build, floor_coord_inf(dir, plane, x + 1)), size - 1)
    ELSE bitand(cdiv((floor_coord(pos, dir, plane, x + 1, y) - map_c * Scale) * size,
                     Scale),
                size - 1)

\* main.c:390-415: the locals of the floor pass at the pixel (x, y)
floor_texel(cam, m, x, y, build) ==
    LET c == floor_cell(cam, x, y, build)
        floor_tile == get_tile(m, c.map_x, c.map_y)
        ceil_tile == get_tile_by_id(id_lut, CEILING_TILE_ID)
    IN  IF ~floor_painted(cam, m, x, y, build)
        THEN [painted |-> FALSE, tex_x |-> 0, tex_y |-> 0, ceil_tile |-> ceil_tile,
              floor_in_buffer |-> TRUE, ceil_in_buffer |-> TRUE]
        ELSE LET ft == tile_registry[floor_tile]
                 tex_x == floor_tex(cam.pos_x, cam.dir_x, cam.plane_x, c.map_x,
                                    ft.width, x, y, build)
                 tex_y == floor_tex(cam.pos_y, cam.dir_y, cam.plane_y, c.map_y,
                                    ft.height, x, y, build)
             IN  [painted |-> TRUE, tex_x |-> tex_x, tex_y |-> tex_y,
                  ceil_tile |-> ceil_tile,
                  floor_in_buffer |-> texel_in_buffer(tex_x, tex_y, ft),
                  ceil_in_buffer |->
                      IF ceil_tile = NULL THEN FALSE
                      ELSE texel_in_buffer(tex_x, tex_y, tile_registry[ceil_tile])]

\* main.c:373-423: the frame buffer after the floor and ceiling pass
floor_pass(cam, m, build) ==
    [x \in Cols |-> [y \in Rows |->
        IF y \in floor_rows
        THEN IF floor_painted(cam, m, x, y, build) THEN "floor" ELSE "0"
        ELSE LET t == floor_texel(cam, m, x, SCREEN_HEIGHT - 1 - y, build)
             IN  IF ~t.painted THEN "0"
                 ELSE IF ~t.ceil_in_buffer THEN "out_of_buffer"
                 ELSE "ceiling"]]

\* main.c:373-423: the locals of the floor pass in row y, on the sampled columns
floor_row_locals(cam, m, y, build) ==
    LET r == floor_row(y)
    IN  [y |-> r.y, p |-> r.p, div_by_zero |-> r.div_by_zero, row_dist |-> r.row_dist,
         texels |-> [x \in Cols |-> floor_texel(cam, m, x, y, build)]]

\* main.c:415: a ceiling texel was read outside the ceiling tile's buffer
ceiling_out_of_buffer(cam, m, build) ==
    /\ get_tile_by_id(id_lut, CEILING_TILE_ID) # NULL
    /\ \E x \in Cols, y \in LowRows : ~floor_texel(cam, m, x, y, build).ceil_in_buffer

\* main.c:414-415: the ceiling tile is dereferenced for every floor pixel
ceiling_deref_null(cam, m, build) ==
    /\ get_tile_by_id(id_lut, CEILING_TILE_ID) = NULL
    /\ \E x \in Cols, y \in LowRows : floor_painted(cam, m, x, y, build)

\* main.c:303-312, 427-430: a ray direction component at column x
ray_dir(dir, plane, x) == dir + RoundDiv(plane * (2 * x - SCREEN_WIDTH), SCREEN_WIDTH)

\* 1e20f, the value of inv_abs(0)
Huge == 2 ^ 30

\* main.c:50
inv_abs(v) == IF v = 0 THEN Huge ELSE fdiv(Scale, fabsf(v))

\* main.c:446-451: frac * delta_dist, with frac the distance to the next grid line
side_dist0(ray_pos, map_c, rd) ==
    LET frac == IF rd < 0 THEN ray_pos - map_c * Scale
                ELSE (map_c + 1) * Scale - ray_pos
    IN  IF rd = 0 THEN Huge ELSE fdiv(frac, fabsf(rd))

\* main.c:455-473: one turn of the step loop, on the loop's variables
dda_step(m, d, s) ==
    IF s.hit_tile # NULL \/ s.steps >= MAP_MAX_STEPS THEN s
    ELSE LET x_side == s.side_dist_x < s.side_dist_y
             mx == IF x_side THEN s.map_x + d.step_x ELSE s.map_x
             my == IF x_side THEN s.map_y ELSE s.map_y + d.step_y
             t == get_tile(m, mx, my)
         IN  [side_dist_x |-> IF x_side THEN s.side_dist_x + d.delta_dist_x
                              ELSE s.side_dist_x,
              side_dist_y |-> IF x_side THEN s.side_dist_y
                              ELSE s.side_dist_y + d.delta_dist_y,
              map_x |-> mx, map_y |-> my,
              hit_side |-> IF x_side THEN 0 ELSE 1,
              hit_tile |-> IF t # NULL /\ tile_registry[t].type = "TILE_TYPE_WALL"
                           THEN t ELSE NULL,
              steps |-> s.steps + 1]

\* n turns of the step loop, or fewer when it ends before
RECURSIVE dda(_, _, _, _)
dda(m, d, s, n) ==
    IF n = 0 THEN s
    ELSE IF n = 1 THEN dda_step(m, d, s)
    ELSE LET h == dda(m, d, s, n \div 2)
         IN  IF h.hit_tile # NULL \/ h.steps >= MAP_MAX_STEPS THEN h
             ELSE dda(m, d, h, n - (n \div 2))

\* the distance with the last step not undone
perp_no_undo(s, d) == IF s.hit_side = 0 THEN s.side_dist_x ELSE s.side_dist_y

\* main.c:481-482
perp_wall_dist(s, d) ==
    IF s.hit_side = 0 THEN s.side_dist_x - d.delta_dist_x
    ELSE s.side_dist_y - d.delta_dist_y

\* main.c:483-484: perp_wall_dist < 1e-6f, on a whole number of units
below_eps(v) == v <= Scale \div 1000000

\* main.c:495: (int)(SCREEN_HEIGHT / perp_wall_dist), 1e-6f when clamped
line_height(perp) ==
    IF below_eps(perp) THEN SCREEN_HEIGHT * 1000000
    ELSE (SCREEN_HEIGHT * Scale) \div perp

\* a * b on fixed-point values as fmul has it, for a beyond a few cells
fmul_wide(a, b) == (a \div Scale) * b + fmul(a % Scale, b)

\* main.c:486-493: the texel column of a hit at distance perp (1e-6f, no whole
\* unit, when clamped)
wall_tex_x(cam, s, rdx, rdy, perp, width) ==
    LET dist == IF below_eps(perp) THEN 0 ELSE perp
        wall_x == IF s.hit_side = 0 THEN cam.pos_y + fmul_wide(dist, rdy)
                  ELSE cam.pos_x + fmul_wide(dist, rdx)
        frac == wall_x % Scale
        tex_x == bitand((frac * width) \div Scale, width - 1)
    IN  IF (s.hit_side = 0 /\ rdx > 0) \/ (s.hit_side = 1 /\ rdy < 0)
        THEN width - 1 - tex_x ELSE tex_x

\* main.c:500: d of row y, with what overflowed on the way; a sum or product
\* that leaves the int range is carried on modulo 2^32
wall_d(lh, y) ==
    LET lh128 == mul32(lh, 128)
        base == y * 256 - SCREEN_HEIGHT * 128
    IN  [d |-> add32(base, lh128),
         overflow |-> mul_overflows(lh, 128) \/ add_overflows(base, lh128)]

\* main.c:501: tex_y of row y; the division by a zero line_height is carried
\* on with the quotient 0
wall_tex_y(lh, height, y) ==
    LET w == wall_d(lh, y)
        dh == mul32(w.d, height)
        q == IF lh = 0 THEN 0 ELSE cdiv(dh, lh)
    IN  [d |-> w.d, tex_y |-> cdiv(q, 256),
         overflow |-> w.overflow \/ mul_overflows(w.d, height),
         div_by_zero |-> (lh = 0)]

\* main.c:499-511: the locals of the row loop, for every row it draws
wall_rows(hit_tile, lh, draw_start, draw_end) ==
    IF hit_tile = NULL THEN <<>>
    ELSE [y \in draw_start..draw_end |->
            wall_tex_y(lh, tile_registry[hit_tile].height, y)]

\* main.c:426-511: the ray of column x
cast_ray(cam, m, x) ==
    LET ray_dir_x == ray_dir(cam.dir_x, cam.plane_x, x)
        ray_dir_y == ray_dir(cam.dir_y, cam.plane_y, x)
        map_x == truncf(cam.pos_x)
        map_y == truncf(cam.pos_y)
        d == [delta_dist_x |-> inv_abs(ray_dir_x), delta_dist_y |-> inv_abs(ray_dir_y),
              step_x |-> sgnf(ray_dir_x), step_y |-> sgnf(ray_dir_y)]
        s == dda(m, d,
                 [side_dist_x |-> side_dist0(cam.pos_x, map_x, ray_dir_x),
                  side_dist_y |-> side_dist0(cam.pos_y, map_y, ray_dir_y),
                  map_x |-> map_x, map_y |-> map_y, hit_side |-> 0,
                  hit_tile |-> NULL, steps |-> 0],
                 MAP_MAX_STEPS)
        perp == perp_wall_dist(s, d)
        lh == line_height(perp)
        draw_start == maxi(0, cdiv(SCREEN_HEIGHT - lh, 2))
        draw_end == mini(SCREEN_HEIGHT - 1, cdiv(SCREEN_HEIGHT + lh, 2))
    IN  [ray_dir_x |-> ray_dir_x, ray_dir_y |-> ray_dir_y,
         map_x |-> s.map_x, map_y |-> s.map_y, steps |-> s.steps,
         hit_tile |-> s.hit_tile, hit_side |-> s.hit_side,
         perp_wall_dist |-> perp, clamped |-> below_eps(perp),
         line_height |-> lh,
         draw_start |-> draw_start, draw_end |-> draw_end,
         tex_x |-> IF s.hit_tile = NULL THEN 0
                   ELSE wall_tex_x(cam, s, ray_dir_x, ray_dir_y, perp,
                                   tile_registry[s.hit_tile].width),
         wall_rows |-> wall_rows(s.hit_tile, lh, draw_start, draw_end)]

\* main.c:314-334
vertical_line(column, y0, y1, color) ==
    [y \in DOMAIN column |->
        IF maxi(0, y0) <= y /\ y <= mini(SCREEN_HEIGHT - 1, y1) THEN color
        ELSE column[y]]

\* main.c:475-512: what the wall pass leaves in the column of ray r
wall_column(column, r) ==
    IF r.hit_tile = NULL
    THEN vertical_line(column, 0, SCREEN_HEIGHT - 1, SKY_COLOR)
    ELSE [y \in DOMAIN column |->
            IF r.draw_start <= y /\ y <= r.draw_end
            THEN (IF ~texel_in_buffer(r.tex_x, r.wall_rows[y].tex_y,
                                      tile_registry[r.hit_tile])
                  THEN "out_of_buffer"
                  ELSE IF r.hit_side = 1 THEN "wall_dim" ELSE "wall")
            ELSE column[y]]

\* main.c:503 in the rays rs: a wall texel was read outside the tile's buffer
wall_out_of_buffer(rs) ==
    \E x \in DOMAIN rs : \E y \in DOMAIN rs[x].wall_rows :
        ~texel_in_buffer(rs[x].tex_x, rs[x].wall_rows[y].tex_y,
                         tile_registry[rs[x].hit_tile])

\* main.c:500-501 in the rays rs: an int expression left the int range, and a
\* row was divided by a zero line_height
wall_overflow(rs) ==
    \E x \in DOMAIN rs : \E y \in DOMAIN rs[x].wall_rows : rs[x].wall_rows[y].overflow
wall_div_by_zero(rs) ==
    \E x \in DOMAIN rs : \E y \in DOMAIN rs[x].wall_rows : rs[x].wall_rows[y].div_by_zero

\* main.c:369-514
render_raycast(px, cam, m, build) ==
    LET fl == floor_pass(cam, m, build)
    IN  [x \in Cols |-> wall_column(fl[x], cast_ray(cam, m, x))]

---------------------------------------------------------------------------
(* Inputs *)

Num(n) == [kind |-> "num", val |-> n]
Junk == [kind |-> "junk", val |-> 0]

Entry(id, typestr, w, h) ==
    [id |-> id, typestr |-> typestr, w |-> w, h |-> h, img_ok |-> TRUE]

StdEntries ==
    << Entry(1, "floor", TILE_BASE_SIZE, TILE_BASE_SIZE),
       Entry(2, "wall", TILE_BASE_SIZE, TILE_BASE_SIZE),
       Entry(3, "door", TILE_BASE_SIZE, TILE_BASE_SIZE),
       Entry(4, "sign", 64, 64),
       Entry(CEILING_TILE_ID, "ceiling", TILE_BASE_SIZE, TILE_BASE_SIZE) >>

\* ids at and beyond the end of the id range, and an id given twice
EdgeEntries ==
    << Entry(1, "floor", TILE_BASE_SIZE, TILE_BASE_SIZE),
       Entry(2, "wall", 64, 64),
       Entry(MAX_TILE_ID, "wall", TILE_BASE_SIZE, TILE_BASE_SIZE),
       Entry(MAX_TILE_ID + 1, "wall", TILE_BASE_SIZE, TILE_BASE_SIZE),
       Entry(2, "wall", TILE_BASE_SIZE, TILE_BASE_SIZE) >>

BrokenEntries ==
    << Entry(1, "floor", TILE_BASE_SIZE, TILE_BASE_SIZE),
       [id |-> 2, typestr |-> "wall", w |-> 0, h |-> 0, img_ok |-> FALSE] >>

StdManifest == [readable |-> TRUE, entries |-> StdEntries]

Manifests ==
    { [readable |-> FALSE, entries |-> <<>>],
      [readable |-> TRUE, entries |-> <<>>],
      StdManifest,
      [readable |-> TRUE, entries |-> EdgeEntries],
      [readable |-> TRUE, entries |-> BrokenEntries] }

Toks(ns) == [i \in 1..Len(ns) |-> Num(ns[i])]
MapFile(w, h, ids) == [exists |-> TRUE, toks |-> <<Num(w), Num(h)>> \o Toks(ids)]

\* a walled room: a door, a decor tile and an unregistered id (7) around the start cell
Room5 == MapFile(5, 5, << 2, 2, 2, 2, 2,
                          2, 1, 3, 1, 2,
                          2, 7, 1, 4, 2,
                          2, 1, 1, 1, 2,
                          2, 2, 2, 2, 2 >>)

Open4 == MapFile(4, 4, [i \in 1..16 |-> 1])
Tiny2 == MapFile(2, 2, <<1, 1, 1, 1>>)

\* four one-cell rooms behind walls one cell thick
Rooms5 == MapFile(5, 5, << 2, 2, 2, 2, 2,
                           2, 1, 2, 1, 2,
                           2, 2, 2, 2, 2,
                           2, 1, 2, 1, 2,
                           2, 2, 2, 2, 2 >>)

Open9 == MapFile(9, 9, [i \in 1..81 |-> 1])

\* a room around a pillar: its floor cells meet the pillar at four corners
Pillar5 == MapFile(5, 5, << 2, 2, 2, 2, 2,
                            2, 1, 1, 1, 2,
                            2, 1, 2, 1, 2,
                            2, 1, 1, 1, 2,
                            2, 2, 2, 2, 2 >>)

\* the scenes of the camera specification: a map file and a start position,
\* in hundredths of a world unit
Scenes ==
    { [file |-> Rooms5, x |-> 150, y |-> 150],
      [file |-> Rooms5, x |-> 110, y |-> 150],
      [file |-> Rooms5, x |-> 190, y |-> 110],
      [file |-> Rooms5, x |-> 137, y |-> 163],
      [file |-> Rooms5, x |-> 102, y |-> 198],
      [file |-> Pillar5, x |-> 195, y |-> 195],
      [file |-> Open9, x |-> 450, y |-> 450] }

MapFiles ==
    { [exists |-> FALSE, toks |-> <<>>],
      [exists |-> TRUE, toks |-> <<>>],
      [exists |-> TRUE, toks |-> <<Junk, Num(3)>>],
      [exists |-> TRUE, toks |-> <<Num(3)>>],
      [exists |-> TRUE, toks |-> <<Num(3), Junk, Num(1)>>],
      [exists |-> TRUE, toks |-> <<Num(0), Num(3)>>],
      [exists |-> TRUE, toks |-> <<Num(3), Num(0), Num(1)>>],
      MapFile(3, 3, <<2, 2, 2, 2, 1>>),
      MapFile(2, 2, <<1, 1, 1>>) ,
      [exists |-> TRUE, toks |-> <<Num(2), Num(1), Num(1), Junk>>],
      Room5, Open4, Tiny2 }

\* frame times in milliseconds: move_speed = MOVE_SPEED_SEC * dt (main.c:626)
FrameTimes == {10, 74, 400, 700}
move_speed(dt) == (MOVE_SPEED_SEC * dt * Scale) \div 1000

\* (cos, sin) of the rotation angles: a quarter turn and atan(4/3)
Angles == { <<0, Scale>>, <<(3 * Scale) \div 5, (4 * Scale) \div 5>> }

\* the products of the rotation are whole numbers of units
ExactRotation(cam, c, s) ==
    \A v \in {cam.dir_x, cam.dir_y, cam.plane_x, cam.plane_y} :
        (v * c) % Scale = 0 /\ (v * s) % Scale = 0

---------------------------------------------------------------------------
(* Actions *)

Init ==
    /\ tile_registry = <<>>
    /\ tile_count = 0
    /\ id_lut = EmptyLut
    /\ map = ZeroMap
    /\ camera = InitCamera
    /\ pixels = <<>>
    /\ rays = <<>>
    /\ rows = <<>>
    /\ pc = "load_tiles"
    /\ manifest_in = [readable |-> FALSE, entries |-> <<>>]
    /\ map_in = [exists |-> FALSE, toks |-> <<>>]
    /\ last = NoCall
    /\ ncalls = 0

\* main.c:582-586
LoadTiles ==
    /\ pc = "load_tiles"
    /\ \E m \in Manifests :
         LET r == load_tiles(m, tile_registry, tile_count, id_lut) IN
         /\ manifest_in' = m
         /\ tile_registry' = r.reg
         /\ tile_count' = r.count
         /\ id_lut' = r.lut
         /\ pc' = IF ~r.ok THEN "exit"
                  ELSE IF r.count = 0 THEN "cleanup_camera_lut" ELSE "load_map"
    /\ UNCHANGED <<map, camera, pixels, rays, rows, map_in, last, ncalls>>

\* main.c:588-607
LoadMap ==
    /\ pc = "load_map"
    /\ \E f \in MapFiles :
         /\ map_in' = f
         /\ map' = load_map(id_lut, f)
         /\ pc' = IF map'.tiles = NullTiles THEN "cleanup_tiles" ELSE "loop"
    /\ UNCHANGED <<tile_registry, tile_count, id_lut, camera, pixels, rays, rows,
                   manifest_in, last, ncalls>>

Rotate(c, s) ==
    /\ pc = "loop"
    /\ ncalls < MaxCalls
    /\ ExactRotation(camera, c, s)
    /\ camera' = rotate_camera(camera, c, s)
    /\ last' = [fn |-> "rotate", before |-> camera, dir_x |-> c, dir_y |-> s,
                speed |-> 0, trace |-> <<>>]
    /\ ncalls' = ncalls + 1
    /\ UNCHANGED <<tile_registry, tile_count, id_lut, map, pixels, rays, rows, pc,
                   manifest_in, map_in>>

Move(dir_x, dir_y, speed) ==
    /\ pc = "loop"
    /\ ncalls < MaxCalls
    /\ LET trace == move_trace(camera, map, dir_x, dir_y, speed) IN
       /\ camera' = move_camera(camera, trace)
       /\ last' = [fn |-> "move", before |-> camera, dir_x |-> dir_x,
                   dir_y |-> dir_y, speed |-> speed, trace |-> trace]
    /\ ncalls' = ncalls + 1
    /\ UNCHANGED <<tile_registry, tile_count, id_lut, map, pixels, rays, rows, pc,
                   manifest_in, map_in>>

\* main.c:632-643
KeyLeft == \E a \in Angles : Rotate(a[1], a[2])
KeyRight == \E a \in Angles : Rotate(a[1], -a[2])
KeyW == \E dt \in FrameTimes : Move(camera.dir_x, camera.dir_y, move_speed(dt))
KeyS == \E dt \in FrameTimes : Move(camera.dir_x, camera.dir_y, -move_speed(dt))
KeyA == \E dt \in FrameTimes : Move(camera.dir_y, -camera.dir_x, -move_speed(dt))
KeyD == \E dt \in FrameTimes : Move(camera.dir_y, -camera.dir_x, move_speed(dt))

Keys == KeyLeft \/ KeyRight \/ KeyW \/ KeyS \/ KeyA \/ KeyD

Next == LoadTiles \/ LoadMap \/ Keys

Spec == Init /\ [][Next]_vars

---------------------------------------------------------------------------
(* The camera on a loaded level, from a chosen start position *)

StdTiles == load_tiles(StdManifest, <<>>, 0, EmptyLut)

InitCam ==
    /\ tile_registry = StdTiles.reg
    /\ tile_count = StdTiles.count
    /\ id_lut = StdTiles.lut
    /\ manifest_in = StdManifest
    /\ \E sc \in Scenes :
         /\ map_in = sc.file
         /\ map = load_map(StdTiles.lut, sc.file)
         /\ camera = [InitCamera EXCEPT !.pos_x = (sc.x * Scale) \div 100,
                                        !.pos_y = (sc.y * Scale) \div 100]
    /\ pixels = <<>>
    /\ rays = <<>>
    /\ rows = <<>>
    /\ pc = "loop"
    /\ last = NoCall
    /\ ncalls = 0

NextCam == KeyLeft \/ KeyRight \/ KeyW \/ KeyS \/ KeyA \/ KeyD

SpecCam == InitCam /\ [][NextCam]_vars

---------------------------------------------------------------------------
(* One frame rendered on a loaded level, from a chosen camera *)

Ring3 == MapFile(3, 3, << 2, 2, 2,
                          2, 1, 2,
                          2, 2, 2 >>)

\* (cos, sin) of the turns the cameras of the render scenes are given
Turns ==
    LET a == (3 * Scale) \div 5
        b == (4 * Scale) \div 5
    IN  { <<Scale, 0>>, <<0, Scale>>, <<-Scale, 0>>, <<0, -Scale>>,
          <<a, b>>, <<b, a>>, <<-a, b>>, <<-b, a>>,
          <<a, -b>>, <<b, -a>>, <<-a, -b>>, <<-b, -a>> }

\* a corridor one cell wide and HallLen cells long, closed by a wall at its far end
HallLen == 1000
Hall == MapFile(HallLen, 1, [i \in 1..HallLen |-> IF i = HallLen THEN 2 ELSE 1])

\* the start position of main, (2, 2), is a corner of a floor cell with a wall
\* to its west
Nook == MapFile(4, 4, << 2, 2, 2, 2,
                         2, 1, 1, 2,
                         2, 2, 1, 2,
                         2, 2, 2, 2 >>)

RenderScenes ==
    { [file |-> Ring3, x |-> 150, y |-> 150],
      [file |-> Nook, x |-> 200, y |-> 200],
      [file |-> Hall, x |-> 50, y |-> 50],
      [file |-> Ring3, x |-> 120, y |-> 170],
      [file |-> Room5, x |-> 250, y |-> 250],
      [file |-> Room5, x |-> 200, y |-> 200],
      [file |-> Open4, x |-> 200, y |-> 200],
      [file |-> Open4, x |-> 50, y |-> 330] }

\* manifests that pass the startup check of main: the standard one, one with no
\* entry for CEILING_TILE_ID, and one whose ceiling image is 64x64
NoCeilingEntries == SubSeq(StdEntries, 1, 4)
LowCeilingEntries == [StdEntries EXCEPT ![5] = Entry(CEILING_TILE_ID, "ceiling", 64, 64)]

RenderManifests ==
    { StdManifest,
      [readable |-> TRUE, entries |-> NoCeilingEntries],
      [readable |-> TRUE, entries |-> LowCeilingEntries] }

InitRender ==
    /\ \E mf \in RenderManifests, sc \in RenderScenes, t \in Turns :
         LET tiles == load_tiles(mf, <<>>, 0, EmptyLut) IN
         /\ tile_registry = tiles.reg
         /\ tile_count = tiles.count
         /\ id_lut = tiles.lut
         /\ manifest_in = mf
         /\ map_in = sc.file
         /\ map = load_map(tiles.lut, sc.file)
         /\ camera = rotate_camera([InitCamera EXCEPT
                                        !.pos_x = (sc.x * Scale) \div 100,
                                        !.pos_y = (sc.y * Scale) \div 100],
                                   t[1], t[2])
    /\ pixels = <<>>
    /\ rays = <<>>
    /\ rows = <<>>
    /\ pc = "loop"
    /\ last = NoCall
    /\ ncalls = 0

\* main.c:645-647: clear_pixels and render_raycast. An int overflow and a read
\* outside a buffer are undefined: the build carries on, with the wrapped value
\* and with whatever the memory holds, or it traps; an integer division by zero
\* traps on x86 and yields 0 on ARM; the read through a null ceil_tile faults
Render ==
    /\ pc = "loop"
    /\ rays' = [x \in Cols |-> cast_ray(camera, map, x)]
    /\ \E build \in {"x86", "arm"} :
         /\ pixels' = render_raycast(clear_pixels, camera, map, build)
         /\ rows' = [y \in LowRows |-> floor_row_locals(camera, map, y, build)]
         /\ \E undefined \in {"carries_on", "traps"} :
              pc' = IF \/ ceiling_deref_null(camera, map, build)
                       \/ (build = "x86" /\ wall_div_by_zero(rays'))
                       \/ (undefined = "traps"
                           /\ (\/ wall_overflow(rays')
                               \/ wall_out_of_buffer(rays')
                               \/ ceiling_out_of_buffer(camera, map, build)))
                    THEN "crashed"
                    ELSE "presented"
    /\ UNCHANGED <<tile_registry, tile_count, id_lut, map, camera, manifest_in,
                   map_in, last, ncalls>>

SpecRender == InitRender /\ [][Render]_vars

---------------------------------------------------------------------------
(* Claims on the map and the tile registry, under Spec *)

Coords == (-MaxCoord..MaxCoord) \cup {INT_MAX, -INT_MAX}

OutOfRange(m, x, y) == x < 0 \/ y < 0 \/ x >= m.width \/ y >= m.height

IsWallTile(t) == t # NULL /\ tile_registry[t].type = "TILE_TYPE_WALL"

\* C3: for every map and every coordinate pair outside [0,width) x [0,height),
\* get_tile returns no tile without reading the cell array, and is_solid is true
C3_OutOfRangeIsSolid ==
    \A x \in Coords, y \in Coords :
        OutOfRange(map, x, y) =>
            /\ ~in_bounds(map, x, y)
            /\ get_tile(map, x, y) = NULL
            /\ is_solid(map, x, y)

C3_Witness ==
    /\ pc = "loop"
    /\ get_tile(map, 0, 0) # NULL
    /\ get_tile(map, -1, 0) = NULL /\ is_solid(map, -1, 0)
    /\ get_tile(map, 0, map.height) = NULL /\ is_solid(map, map.width, 0)

\* C4: an in-bounds cell is solid only if it resolves to a Wall-kind tile; a door,
\* a floor, a decor tile and an empty cell (no tile resolved) are not solid
C4_OnlyWallsAreSolid ==
    map.tiles # NullTiles =>
        \A x \in 0..(map.width - 1), y \in 0..(map.height - 1) :
            is_solid(map, x, y) => IsWallTile(get_tile(map, x, y))

HasEntry(m, id) == \E i \in 1..Len(m.entries) : m.entries[i].id = id

\* C5: after load_tiles, for every id in 0..MAX_TILE_ID get_tile_by_id returns a
\* tile registered under that id when the manifest has an entry with that id, and
\* it returns nothing exactly when the id is above MAX_TILE_ID or has no entry
C5_LutCoversManifest ==
    pc \notin {"load_tiles", "exit"} =>
        \A id \in 0..(MAX_TILE_ID + 2) :
            LET t == get_tile_by_id(id_lut, id) IN
            /\ (id <= MAX_TILE_ID /\ HasEntry(manifest_in, id)) =>
                   (t # NULL /\ tile_registry[t].id = id)
            /\ (t = NULL) <=> (id > MAX_TILE_ID \/ ~HasEntry(manifest_in, id))

\* the failure cases of load_map, read off the file: it cannot be opened, its
\* header is missing, incomplete or not positive, or it holds too few tile ids
MapFails(f) ==
    \/ ~f.exists
    \/ ~IsNum(f.toks, 1) \/ ~IsNum(f.toks, 2)
    \/ f.toks[1].val <= 0 \/ f.toks[2].val <= 0
    \/ \E k \in 1..(f.toks[1].val * f.toks[2].val) : ~IsNum(f.toks, 2 + k)

\* C6: in every failure case of load_map the returned Map has width = 0,
\* height = 0 and no cell array
C6_FailedLoadIsZeroMap ==
    (pc \in {"cleanup_tiles", "loop"} /\ MapFails(map_in)) => map = ZeroMap

---------------------------------------------------------------------------
(* Claims on the camera, under SpecCam *)

\* the direction move_camera travels in: the requested one, flipped for a
\* negative speed
TravelX(l) == IF l.speed < 0 THEN -l.dir_x ELSE l.dir_x
TravelY(l) == IF l.speed < 0 THEN -l.dir_y ELSE l.dir_y

CellX(c) == floorf(c.pos_x)
CellY(c) == floorf(c.pos_y)

\* the last call moved straight along a grid axis at a Wall-kind cell next to the
\* camera's cell, from a non-solid cell
StraightAtWall(l) ==
    /\ l.fn = "move"
    /\ (TravelX(l) = 0) # (TravelY(l) = 0)
    /\ ~is_solid(map, CellX(l.before), CellY(l.before))
    /\ IsWallTile(get_tile(map, CellX(l.before) + sgnf(TravelX(l)),
                                CellY(l.before) + sgnf(TravelY(l))))

\* the distance from (x, y) to the face of that wall, along the axis of travel
WallDist(l, x, y) ==
    IF TravelX(l) > 0 THEN (CellX(l.before) + 1) * Scale - x
    ELSE IF TravelX(l) < 0 THEN x - CellX(l.before) * Scale
    ELSE IF TravelY(l) > 0 THEN (CellY(l.before) + 1) * Scale - y
    ELSE y - CellY(l.before) * Scale

\* C1: no tunneling: a move straight at an adjacent wall, from at least
\* CAMERA_RADIUS away, at any speed, keeps the camera on the near side at a
\* distance of at least CAMERA_RADIUS, after the call and after every micro-step
C1_NoTunneling ==
    (StraightAtWall(last)
     /\ WallDist(last, last.before.pos_x, last.before.pos_y) >= CAMERA_RADIUS)
    => /\ WallDist(last, camera.pos_x, camera.pos_y) >= CAMERA_RADIUS
       /\ \A i \in 1..Len(last.trace) :
              WallDist(last, last.trace[i].x, last.trace[i].y) >= CAMERA_RADIUS

\* a move of three and a half cells at a wall less than a cell away ran all its
\* micro-steps and stopped within one micro-step of the closest allowed position
C1_Witness ==
    /\ StraightAtWall(last)
    /\ WallDist(last, last.before.pos_x, last.before.pos_y) >= CAMERA_RADIUS
    /\ fabsf(last.speed) > 3 * Scale
    /\ Len(last.trace) = max_iter
    /\ camera.pos_x # last.before.pos_x
    /\ WallDist(last, camera.pos_x, camera.pos_y) < CAMERA_RADIUS + MAX_STEP

\* the displacement requested of the last call, per axis
TravelLen(l) == hypotf(TravelX(l), TravelY(l))
WantedX(l) == fmul(fdiv(TravelX(l), TravelLen(l)), fabsf(l.speed))
WantedY(l) == fmul(fdiv(TravelY(l), TravelLen(l)), fabsf(l.speed))

\* no cell the requested movement can touch is solid
PathClear(l) ==
    LET x0 == l.before.pos_x
        y0 == l.before.pos_y
        x1 == x0 + WantedX(l)
        y1 == y0 + WantedY(l)
    IN  \A cx \in floorf(mini(x0, x1) - CAMERA_RADIUS)..floorf(maxi(x0, x1) + CAMERA_RADIUS),
           cy \in floorf(mini(y0, y1) - CAMERA_RADIUS)..floorf(maxi(y0, y1) + CAMERA_RADIUS) :
            ~is_solid(map, cx, cy)

Displaced(l) ==
    /\ camera.pos_x = l.before.pos_x + WantedX(l)
    /\ camera.pos_y = l.before.pos_y + WantedY(l)

\* C2, as stated: on a path clear of solid cells a move changes the position by
\* exactly speed times the normalized direction, whatever the speed
C2_ExactDisplacement ==
    (last.fn = "move" /\ TravelLen(last) # 0 /\ PathClear(last)) => Displaced(last)

\* C2, amended: the same for speeds of at most max_iter * MAX_STEP
C2_ExactDisplacementUpToCap ==
    (last.fn = "move" /\ TravelLen(last) # 0 /\ PathClear(last)
     /\ fabsf(last.speed) <= max_iter * MAX_STEP) => Displaced(last)

\* a second move, two cells long and oblique to the grid, on a clear path
C2_Witness ==
    /\ ncalls = 2
    /\ last.fn = "move" /\ PathClear(last)
    /\ fabsf(last.speed) = 2 * Scale
    /\ TravelX(last) # 0 /\ TravelY(last) # 0
    /\ Displaced(last)
    /\ camera.pos_x # last.before.pos_x /\ camera.pos_y # last.before.pos_y

Dot(ax, ay, bx, by) == ax * bx + ay * by

\* C7: after any sequence of rotations the direction has length 1, it is
\* orthogonal to the plane and the plane has its length; a move changes neither
C7_RotationKeepsBasis ==
    /\ Dot(camera.dir_x, camera.dir_y, camera.dir_x, camera.dir_y) = Scale * Scale
    /\ Dot(camera.dir_x, camera.dir_y, camera.plane_x, camera.plane_y) = 0
    /\ Dot(camera.plane_x, camera.plane_y, camera.plane_x, camera.plane_y)
           = FOV_FACTOR * FOV_FACTOR
    /\ last.fn = "move" =>
           /\ camera.dir_x = last.before.dir_x /\ camera.dir_y = last.before.dir_y
           /\ camera.plane_x = last.before.plane_x
           /\ camera.plane_y = last.before.plane_y

\* two rotations in a row, ending oblique to the grid
C7_Witness ==
    /\ ncalls = 2
    /\ last.fn = "rotate"
    /\ last.before.dir_x # InitCamera.dir_x
    /\ camera.dir_x # 0 /\ camera.dir_y # 0
    /\ camera.dir_x # last.before.dir_x

\* the cell of the k-th micro-step of the last call is solid
StepInWall(l, k) == is_solid(map, floorf(l.trace[k].x), floorf(l.trace[k].y))

\* C12: a rotate_camera or move_camera call made with the camera in a cell that
\* is not solid leaves it in a cell that is not solid, after the call and after
\* every micro-step of it, and the "inside wall" diagnostic does not fire; so
\* from a start in such a cell this holds after every sequence of calls
C12_NeverInsideWall ==
    (last.fn # "none" /\ ~is_solid(map, CellX(last.before), CellY(last.before)))
    => /\ ~is_solid(map, CellX(camera), CellY(camera))
       /\ ~inside_wall(camera, map)
       /\ \A k \in 1..Len(last.trace) : ~StepInWall(last, k)

\* a second call that moved the camera obliquely into a wall: it ran all its
\* micro-steps, was stopped on one axis at least and went on along the other
C12_Witness ==
    /\ ncalls = 2
    /\ last.fn = "move"
    /\ ~is_solid(map, CellX(last.before), CellY(last.before))
    /\ TravelX(last) # 0 /\ TravelY(last) # 0
    /\ Len(last.trace) = max_iter
    /\ ~Displaced(last)
    /\ (camera.pos_x # last.before.pos_x \/ camera.pos_y # last.before.pos_y)
    /\ ~inside_wall(camera, map)

---------------------------------------------------------------------------
(* Claims on the renderer, under SpecRender *)

CenterColumn == SCREEN_WIDTH \div 2

\* the frame was rendered on the 3x3 map that is all walls but its center cell,
\* from the center of that cell, facing along a grid axis
CenteredInRing ==
    /\ pc = "presented"
    /\ map_in = Ring3
    /\ camera.pos_x = (3 * Scale) \div 2 /\ camera.pos_y = (3 * Scale) \div 2
    /\ (camera.dir_x = 0 \/ camera.dir_y = 0)

\* C8: in that scene the ray along the facing direction ends on its first step
\* with a wall hit at perpendicular distance 0.5, on side 0 when facing along X
\* and on side 1 when facing along Y
C8_CenteredAxisRay ==
    CenteredInRing =>
        LET r == rays[CenterColumn] IN
        /\ r.ray_dir_x = camera.dir_x /\ r.ray_dir_y = camera.dir_y
        /\ IsWallTile(r.hit_tile)
        /\ r.steps = 1
        /\ r.map_x = 1 + sgnf(camera.dir_x) /\ r.map_y = 1 + sgnf(camera.dir_y)
        /\ ~r.clamped /\ r.perp_wall_dist = Scale \div 2
        /\ r.hit_side = (IF camera.dir_y = 0 THEN 0 ELSE 1)

C8_Witness ==
    /\ CenteredInRing
    /\ camera.dir_y > 0
    /\ rays[CenterColumn].hit_side = 1
    /\ rays[CenterColumn].perp_wall_dist = Scale \div 2

\* C9: the floor pass never divides by a zero y - SCREEN_HEIGHT/2: the horizon
\* row is skipped or guarded, and row_dist is a finite value in every row
C9_NoZeroDenominator ==
    pc = "presented" =>
        \A y \in DOMAIN rows : rows[y].p # 0 /\ ~rows[y].div_by_zero

\* C10: a column whose ray ends with no hit holds SKY_COLOR above the horizon
\* and GROUND_COLOR below it
C10_NoHitIsBackground ==
    pc = "presented" =>
        \A x \in Cols :
            rays[x].hit_tile = NULL =>
                \A y \in Rows :
                    pixels[x][y] = IF y < SCREEN_HEIGHT \div 2 THEN SKY_COLOR
                                   ELSE GROUND_COLOR

\* the tile a ray hit
HitTile(r) == tile_registry[r.hit_tile]

\* C11: for every wall hit and every row y drawn for it, draw_start and draw_end
\* included, whatever the line_height, tex_y lies in [0, tileHeight), and the
\* read of hit_tile->pixels[tex_y * width + tex_x] stays inside the tile's buffer
C11_TexelRowInTile ==
    \A x \in DOMAIN rays :
        rays[x].hit_tile # NULL =>
            \A y \in rays[x].draw_start..rays[x].draw_end :
                /\ 0 <= rays[x].wall_rows[y].tex_y
                /\ rays[x].wall_rows[y].tex_y < HitTile(rays[x]).height
                /\ texel_in_buffer(rays[x].tex_x, rays[x].wall_rows[y].tex_y,
                                   HitTile(rays[x]))

\* C13: for every wall hit within MAP_MAX_STEPS, with the distance clamped at
\* 1e-6 and tiles up to 128 high, line_height is at least 1, so no row divides
\* by zero, and line_height * 128, d and d * tileHeight stay inside the 32-bit
\* int range in every drawn row
C13_ProjectionInIntRange ==
    \A x \in DOMAIN rays :
        (rays[x].hit_tile # NULL /\ rays[x].steps <= MAP_MAX_STEPS
         /\ HitTile(rays[x]).height <= TILE_BASE_SIZE) =>
            /\ rays[x].line_height >= 1
            /\ \A y \in rays[x].draw_start..rays[x].draw_end :
                   /\ ~rays[x].wall_rows[y].div_by_zero
                   /\ ~rays[x].wall_rows[y].overflow

\* C14: for every tile registry that passes the startup check and every map,
\* whenever the floor pass paints a floor pixel, the lookup of CEILING_TILE_ID
\* yields a registered tile, and tex_y * ceilingWidth + tex_x, with tex_x and
\* tex_y masked to the floor tile's dimensions, lies inside the ceiling tile's
\* pixel buffer
C14_CeilingSampleInBuffer ==
    tile_count > 0 =>
        \A y \in DOMAIN rows : \A x \in Cols :
            rows[y].texels[x].painted =>
                /\ rows[y].texels[x].ceil_tile # NULL
                /\ rows[y].texels[x].ceil_in_buffer

===========================================================================
